---- MODULE Spec2Model ----
(***************************************************************************)
(* Model of python_prep: the singly linked list of reverse_linked_list.py  *)
(* (Node, traverse, rev; practice.py holds the same code as traverse_ll    *)
(* and rev_ll) and the sliding-window scan of                              *)
(* longest_substr_without_repeating_chars.py (practice.py: lon_cmn_sub_str)*)
(*                                                                         *)
(* The heap is a pair of sequences indexed by node identity: node i has    *)
(* payload data[i] and successor next[i]; None (0) is Python's None.       *)
(***************************************************************************)
EXTENDS Integers, Sequences, FiniteSets

VARIABLES
    S,         \* the values the client builds the chain from
    data,      \* Node.data of every allocated node
    next,      \* Node.next of every allocated node
    head,      \* module-level `head`
    new_head,  \* module-level `new_head` (the result of the last rev)
    pc,        \* "main" | "traverse" | "rev": the frame that is running
    curr,      \* local `curr` of the running traverse / rev frame
    prev,      \* local `prev` of the running rev frame
    out,       \* what the running / last traverse has printed
    visited,   \* history: the nodes that traverse printed, in order
    prevOut,   \* history: what the call before the running one printed
    calls,     \* history: the calls the client made, in order
    arg,       \* history: the argument of the running / last call
    next0,     \* history: `next` as it was when that call started
    iters,     \* history: iterations of the rev loop in that call
    writes,    \* history: per node, assignments to .next in that call
    s,         \* the string given to longest_unique_substr
    seen,      \* local `seen`: character -> its last index (0-based)
    left,      \* local `left`
    right,     \* loop index `right` of the next iteration
    max_len,   \* local `max_len`
    start,     \* local `start`
    spc,       \* "idle" | "scan" | "done": position in longest_unique_substr
    ret        \* the returned substring

listVars == <<S, data, next, head, new_head, pc, curr, prev, out, visited,
              prevOut, calls, arg, next0, iters, writes>>
subVars == <<s, seen, left, right, max_len, start, spc, ret>>
vars == <<listVars, subVars>>

\* Bounds of the model.
MaxLen == 3
MaxCalls == 3
MaxStr == 4

None == 0
Values == {10, 20, 30}
Chars == {"a", "b", "c"}

SeqsUpTo(A, n) == UNION {[1..k -> A] : k \in 0..n}

Reverse(q) == [i \in 1..Len(q) |-> q[Len(q) + 1 - i]]

Nodes == DOMAIN data

\* Following nx from h: the distinct nodes met, and where the walk stopped
\* (None at a tail, otherwise the first node met a second time).
RECURSIVE Walk(_, _, _)
Walk(h, nx, acc) ==
    IF h = None \/ (\E i \in DOMAIN acc : acc[i] = h)
    THEN [path |-> acc, stop |-> h]
    ELSE Walk(nx[h], nx, Append(acc, h))

ChainOf(h, nx) == Walk(h, nx, <<>>).path
Acyclic(h, nx) == Walk(h, nx, <<>>).stop = None
DataOf(path) == [i \in 1..Len(path) |-> data[path[i]]]

\* The idle values of the substring scan (it is not running).
SubIdle ==
    /\ s = <<>> /\ seen = <<>>
    /\ left = 0 /\ right = 0 /\ max_len = 0 /\ start = 0
    /\ spc = "idle" /\ ret = <<>>

ListStart ==
    /\ data = <<>> /\ next = <<>>
    /\ head = None /\ new_head = None
    /\ pc = "main" /\ curr = None /\ prev = None
    /\ out = <<>> /\ visited = <<>> /\ prevOut = <<>>
    /\ calls = <<>> /\ arg = None /\ next0 = <<>>
    /\ iters = 0 /\ writes = <<>>

Init ==
    /\ S \in SeqsUpTo(Values, MaxLen)
    /\ ListStart
    /\ SubIdle

\* head = Node(10); head.next = Node(20); head.next.next = Node(30):
\* one node per value, in order, each linked behind the one before.
NewNode ==
    /\ pc = "main" /\ calls = <<>>
    /\ Len(data) < Len(S)
    /\ LET n == Len(data) + 1 IN
        /\ data' = Append(data, S[n])
        /\ next' = IF n = 1
                   THEN <<None>>
                   ELSE Append([next EXCEPT ![n - 1] = n], None)
        /\ head' = IF n = 1 THEN n ELSE head
    /\ UNCHANGED <<S, new_head, pc, curr, prev, out, visited, prevOut,
                   calls, arg, next0, iters, writes, subVars>>

Built == Len(data) = Len(S)

\* The references the client holds: `new_head` exists once a rev returned.
Refs == {"head"} \cup
        (IF \E i \in DOMAIN calls : calls[i].op = "rev" THEN {"new_head"} ELSE {})
Deref(r) == IF r = "head" THEN head ELSE new_head

\* traverse(h): curr = head
CallTraverse(r) ==
    /\ pc = "main" /\ Built /\ Len(calls) < MaxCalls
    /\ r \in Refs
    /\ pc' = "traverse"
    /\ curr' = Deref(r)
    /\ arg' = Deref(r)
    /\ next0' = next
    /\ calls' = Append(calls, [op |-> "traverse", ref |-> r])
    /\ prevOut' = out
    /\ out' = <<>> /\ visited' = <<>>
    /\ iters' = 0 /\ writes' = [i \in Nodes |-> 0]
    /\ UNCHANGED <<S, data, next, head, new_head, prev, subVars>>

\* Mutant of TraverseLoop: the loop tests curr.next and leaves one node early.
TraverseLoopEarly == curr # None /\ next[curr] # None

\* while curr is not None   (practice.py: while curr)
TraverseLoop == curr # None

\* Mutant of TraverseStep: the visit unlinks the node it has printed.
TraverseStepConsume ==
    /\ pc = "traverse" /\ TraverseLoop
    /\ out' = Append(out, data[curr])
    /\ visited' = Append(visited, curr)
    /\ curr' = next[curr]
    /\ next' = [next EXCEPT ![curr] = None]
    /\ UNCHANGED <<S, data, head, new_head, pc, prev, prevOut, calls,
                   arg, next0, iters, writes, subVars>>

\* The loop body: print(curr.data); curr = curr.next
TraverseStep ==
    /\ pc = "traverse" /\ TraverseLoop
    /\ out' = Append(out, data[curr])
    /\ visited' = Append(visited, curr)
    /\ curr' = next[curr]
    /\ UNCHANGED <<S, data, next, head, new_head, pc, prev, prevOut, calls,
                   arg, next0, iters, writes, subVars>>

\* The loop is left and traverse returns (None).
TraverseReturn ==
    /\ pc = "traverse" /\ ~TraverseLoop
    /\ pc' = "main"
    /\ UNCHANGED <<S, data, next, head, new_head, curr, prev, out, visited,
                   prevOut, calls, arg, next0, iters, writes, subVars>>

\* rev(h): prev = None; curr = head
CallRev(r) ==
    /\ pc = "main" /\ Built /\ Len(calls) < MaxCalls
    /\ r \in Refs
    /\ pc' = "rev"
    /\ prev' = None
    /\ curr' = Deref(r)
    /\ arg' = Deref(r)
    /\ next0' = next
    /\ calls' = Append(calls, [op |-> "rev", ref |-> r])
    /\ prevOut' = <<>> /\ out' = <<>> /\ visited' = <<>>
    /\ iters' = 0 /\ writes' = [i \in Nodes |-> 0]
    /\ UNCHANGED <<S, data, next, head, new_head, subVars>>

\* Mutant of RevLoop: the loop tests curr.next and leaves the tail unlinked.
RevLoopEarly == curr # None /\ next[curr] # None

\* while curr
RevLoop == curr # None

\* Mutant of RevStep: `curr.next = prev` is missing.
RevStepLostLink ==
    /\ pc = "rev" /\ RevLoop
    /\ prev' = curr
    /\ curr' = next[curr]
    /\ iters' = iters + 1
    /\ UNCHANGED <<S, data, next, head, new_head, pc, out, visited, prevOut,
                   calls, arg, next0, writes, subVars>>

\* Mutant of RevStep: curr.next is read after it was overwritten
\* (curr.next = prev; prev = curr; curr = curr.next).
RevStepReadAfterWrite ==
    /\ pc = "rev" /\ RevLoop
    /\ next' = [next EXCEPT ![curr] = prev]
    /\ prev' = curr
    /\ curr' = prev
    /\ iters' = iters + 1
    /\ writes' = [writes EXCEPT ![curr] = @ + 1]
    /\ UNCHANGED <<S, data, head, new_head, pc, out, visited, prevOut, calls,
                   arg, next0, subVars>>

\* Mutant of RevStep: the reversed list is built from fresh copies of the
\* nodes (prev = Node(curr.data) linked to the old prev).
RevStepCopy ==
    /\ pc = "rev" /\ RevLoop
    /\ data' = Append(data, data[curr])
    /\ next' = Append(next, prev)
    /\ prev' = Len(data) + 1
    /\ curr' = next[curr]
    /\ iters' = iters + 1
    /\ writes' = Append(writes, 1)
    /\ UNCHANGED <<S, head, new_head, pc, out, visited, prevOut, calls,
                   arg, next0, subVars>>

\* The loop body: new_head = curr.next; curr.next = prev; prev = curr;
\* curr = new_head   (the local new_head is `upcoming` here)
RevStep ==
    /\ pc = "rev" /\ RevLoop
    /\ LET upcoming == next[curr] IN
        /\ next' = [next EXCEPT ![curr] = prev]
        /\ prev' = curr
        /\ curr' = upcoming
    /\ iters' = iters + 1
    /\ writes' = [writes EXCEPT ![curr] = @ + 1]
    /\ UNCHANGED <<S, data, head, new_head, pc, out, visited, prevOut, calls,
                   arg, next0, subVars>>

\* Mutant of RevReturn: `return curr`.
RevReturnCurr ==
    /\ pc = "rev" /\ ~RevLoop
    /\ pc' = "main"
    /\ new_head' = curr
    /\ UNCHANGED <<S, data, next, head, curr, prev, out, visited, prevOut,
                   calls, arg, next0, iters, writes, subVars>>

\* Mutant of RevReturn: `return head`.
RevReturnHead ==
    /\ pc = "rev" /\ ~RevLoop
    /\ pc' = "main"
    /\ new_head' = arg
    /\ UNCHANGED <<S, data, next, head, curr, prev, out, visited, prevOut,
                   calls, arg, next0, iters, writes, subVars>>

\* return prev; new_head = rev(...)
RevReturn ==
    /\ pc = "rev" /\ ~RevLoop
    /\ pc' = "main"
    /\ new_head' = prev
    /\ UNCHANGED <<S, data, next, head, curr, prev, out, visited, prevOut,
                   calls, arg, next0, iters, writes, subVars>>

\* A client ties the tail of the chain it built back into the chain
\* (Node.next is an ordinary attribute): tail.next = k-th node.
LinkBack(k) ==
    /\ pc = "main" /\ calls = <<>> /\ Built
    /\ Len(data) >= 1 /\ next[Len(data)] = None
    /\ k \in Nodes
    /\ next' = [next EXCEPT ![Len(data)] = k]
    /\ UNCHANGED <<S, data, head, new_head, pc, curr, prev, out, visited,
                   prevOut, calls, arg, next0, iters, writes, subVars>>

\* longest_unique_substr(s): seen = {}; start = 0; max_len = 0; left = 0
ScanCall ==
    /\ spc = "idle"
    /\ spc' = "scan"
    /\ seen' = <<>> /\ start' = 0 /\ max_len' = 0 /\ left' = 0 /\ right' = 0
    /\ UNCHANGED <<s, ret, listVars>>

\* Mutant of ScanStep: `and seen[ch] >= left` is missing, so left can move back.
ScanStepNoLeftCheck ==
    /\ spc = "scan" /\ right < Len(s)
    /\ LET ch == s[right + 1]
           nl == IF ch \in DOMAIN seen THEN seen[ch] + 1 ELSE left
       IN
        /\ left' = nl
        /\ seen' = [c \in DOMAIN seen \cup {ch} |->
                        IF c = ch THEN right ELSE seen[c]]
        /\ IF right - nl + 1 > max_len
           THEN max_len' = right - nl + 1 /\ start' = nl
           ELSE UNCHANGED <<max_len, start>>
    /\ right' = right + 1
    /\ UNCHANGED <<s, spc, ret, listVars>>

\* One iteration of `for right, ch in enumerate(s)`; s[right + 1] is the
\* character at the 0-based index right.
ScanStep ==
    /\ spc = "scan" /\ right < Len(s)
    /\ LET ch == s[right + 1]
           nl == IF ch \in DOMAIN seen /\ seen[ch] >= left
                 THEN seen[ch] + 1
                 ELSE left
       IN
        /\ left' = nl
        /\ seen' = [c \in DOMAIN seen \cup {ch} |->
                        IF c = ch THEN right ELSE seen[c]]
        /\ IF right - nl + 1 > max_len
           THEN max_len' = right - nl + 1 /\ start' = nl
           ELSE UNCHANGED <<max_len, start>>
    /\ right' = right + 1
    /\ UNCHANGED <<s, spc, ret, listVars>>

\* return s[start:start + max_len]
ScanReturn ==
    /\ spc = "scan" /\ right = Len(s)
    /\ ret' = SubSeq(s, start + 1, start + max_len)
    /\ spc' = "done"
    /\ UNCHANGED <<s, seen, left, right, max_len, start, listVars>>

Next ==
    \/ NewNode
    \/ \E r \in {"head", "new_head"} : CallTraverse(r)
    \/ TraverseStep
    \/ TraverseReturn
    \/ \E r \in {"head", "new_head"} : CallRev(r)
    \/ RevStep
    \/ RevReturn

Spec == Init /\ [][Next]_vars

\* The list with a client that may close a cycle before it calls rev.
NextCyc ==
    \/ NewNode
    \/ \E k \in Nodes : LinkBack(k)
    \/ \E r \in {"head", "new_head"} : CallRev(r)
    \/ RevStep
    \/ RevReturn

SpecCyc == Init /\ [][NextCyc]_vars

\* The substring scan on every string over Chars of at most MaxStr characters.
InitSub ==
    /\ S = <<>>
    /\ ListStart
    /\ s \in SeqsUpTo(Chars, MaxStr)
    /\ seen = <<>> /\ left = 0 /\ right = 0 /\ max_len = 0 /\ start = 0
    /\ spc = "idle" /\ ret = <<>>

NextSub == ScanCall \/ ScanStep \/ ScanReturn

SpecSub == InitSub /\ [][NextSub]_vars

(***************************************************************************)
(* The claims.                                                             *)
(***************************************************************************)
RevHead == [op |-> "rev", ref |-> "head"]
RevNew == [op |-> "rev", ref |-> "new_head"]
TravHead == [op |-> "traverse", ref |-> "head"]
TravNew == [op |-> "traverse", ref |-> "new_head"]

IsRev(c) == c.op = "rev"
Revs == SelectSeq(calls, IsRev)
LastCall == calls[Len(calls)]
\* The last call was op and it has returned.
Returned(op) == pc = "main" /\ calls # <<>> /\ LastCall.op = op

\* The chain the running / last call was given, as it was at the call.
Chain0 == ChainOf(arg, next0)

\* C1: build the chain from S, rev its head, traverse from the head rev
\* returned: the payloads of S are printed in reversed order (traversals
\* before the rev make no difference).
C1_TraverseOfRevIsReversed ==
    (Returned("traverse") /\ Revs = <<RevHead>> /\ LastCall = TravNew)
        => out = Reverse(S)

C1_Witness ==
    /\ Returned("traverse") /\ Revs = <<RevHead>> /\ LastCall = TravNew
    /\ Len(S) = 3 /\ S[1] # S[3]
    /\ out = Reverse(S)

\* C2: traverse prints every node of the chain it is given exactly once, in
\* chain order; on the chain built from S that is S itself, and on an absent
\* head nothing is printed.
C2_TraverseEmitsChain ==
    Returned("traverse") =>
        /\ visited = ChainOf(arg, next)
        /\ out = DataOf(visited)
        /\ (Revs = <<>> => out = S)
        /\ (arg = None => out = <<>>)

C2_Witness ==
    /\ Returned("traverse") /\ Revs = <<>>
    /\ Len(S) = 3 /\ S[1] # S[2] /\ S[2] # S[3]
    /\ out = S

\* C3: rev of the head that rev returned restores the payload order: after
\* new_head = rev(head); new_head = rev(new_head) the chain from new_head
\* carries S, and a traversal from it prints S.
C3_RevIsInvolution ==
    (pc = "main" /\ Revs = <<RevHead, RevNew>>) =>
        /\ DataOf(ChainOf(new_head, next)) = S
        /\ (LastCall = TravNew => out = S)

C3_Witness ==
    /\ pc = "main" /\ Revs = <<RevHead, RevNew>> /\ LastCall = TravNew
    /\ Len(S) = 3 /\ S[1] # S[3]
    /\ out = S

\* C4: every step of a rev call (its start, its iterations, its return)
\* leaves the set of nodes and every node's data as they were; only next
\* links change.
C4_RevOnlyRelinks ==
    [][(pc = "rev" \/ pc' = "rev") =>
            (DOMAIN data' = DOMAIN data /\ DOMAIN next' = DOMAIN next
             /\ data' = data)]_vars

C4_Witness ==
    /\ Returned("rev") /\ iters = 3 /\ next # next0
    /\ DataOf(ChainOf(new_head, next)) = Reverse(S)

\* C5: no step of a traverse call changes a node's data or next or the
\* caller's head, and a traverse that follows a traverse of the same
\* reference prints the same sequence.
C5_TraverseDoesNotMutate ==
    /\ [][(pc = "traverse" \/ pc' = "traverse") =>
            (data' = data /\ next' = next /\ head' = head
             /\ new_head' = new_head)]_vars
    /\ []((Returned("traverse") /\ Len(calls) >= 2
           /\ calls[Len(calls) - 1] = LastCall) => out = prevOut)

C5_Witness ==
    /\ Returned("traverse") /\ Len(calls) >= 2
    /\ calls[Len(calls) - 1] = LastCall
    /\ Len(out) = 3 /\ out = prevOut

\* The nodes of a chain with a cycle that lie before the cycle, and on it.
PrefixLen(h, nx) ==
    LET w == Walk(h, nx, <<>>)
    IN (CHOOSE i \in DOMAIN w.path : w.path[i] = w.stop) - 1
CycleLen(h, nx) == Len(ChainOf(h, nx)) - PrefixLen(h, nx)

\* C6, as claimed: on a chain with a cycle the rev loop never ends, curr is
\* never absent.
C6_RevNeverEndsOnCycle ==
    (pc = "rev" /\ ~Acyclic(arg, next0)) => curr # None

\* C6, amended: on a chain with a cycle of c nodes behind p nodes the rev
\* loop ends all the same: curr is absent after exactly 2p + c + 1
\* iterations, and rev returns the head it was given.
C6_RevEndsOnCycle ==
    (pc = "rev" /\ ~Acyclic(arg, next0)) =>
        LET bound == 2 * PrefixLen(arg, next0) + CycleLen(arg, next0) + 1 IN
            /\ iters <= bound
            /\ (curr = None <=> iters = bound)
            /\ (curr = None => prev = arg)

C6_Witness ==
    /\ pc = "rev" /\ ~Acyclic(arg, next0)
    /\ PrefixLen(arg, next0) = 1 /\ CycleLen(arg, next0) = 2
    /\ curr = None /\ iters = 5

\* C7: the loop invariant of rev on the chain n1..nk: after j iterations the
\* chain from prev is nj, ..., n1 and acyclic (prev absent iff j = 0), curr is
\* n(j+1) (absent when j = k), and the rest of the original chain hangs from
\* curr with its links untouched.
C7_RevLoopInvariant ==
    pc = "rev" =>
        LET k == Len(Chain0)
            j == iters
        IN
            /\ j <= k
            /\ ChainOf(prev, next) = Reverse(SubSeq(Chain0, 1, j))
            /\ Acyclic(prev, next)
            /\ (prev = None <=> j = 0)
            /\ curr = (IF j < k THEN Chain0[j + 1] ELSE None)
            /\ ChainOf(curr, next) = SubSeq(Chain0, j + 1, k)
            /\ Acyclic(curr, next)
            /\ \A i \in (j + 1)..k : next[Chain0[i]] = next0[Chain0[i]]

C7_Witness ==
    /\ pc = "rev" /\ Len(Chain0) = 3 /\ iters = 2
    /\ ChainOf(prev, next) = <<Chain0[2], Chain0[1]>>
    /\ curr = Chain0[3]

\* C8: on an acyclic chain of n nodes the rev loop runs exactly n times and
\* then ends (the count never passes n, and curr is absent exactly when it is
\* n), and at the return every node of the chain had its next assigned
\* exactly once, every other node never.
C8_RevRunsNIterations ==
    (pc = "rev" \/ Returned("rev")) =>
        LET n == Len(Chain0)
            OnChain(x) == \E i \in 1..n : Chain0[i] = x
        IN
            /\ iters <= n
            /\ (pc = "rev" => (RevLoop <=> iters < n))
            /\ (Returned("rev") =>
                    /\ iters = n
                    /\ \A x \in Nodes :
                        writes[x] = (IF OnChain(x) THEN 1 ELSE 0))

C8_Witness ==
    /\ Returned("rev") /\ Len(Chain0) = 3 /\ iters = 3
    /\ \A x \in Nodes : writes[x] = 1

\* C9: after new_head = rev(head) on a chain of n >= 1 nodes, head still
\* designates the first node built, which is now the tail (its next is
\* absent), new_head is the node that was last, and traverse(head) prints
\* only the first payload.
C9_StaleHeadIsTail ==
    (pc = "main" /\ Revs = <<RevHead>> /\ Len(S) >= 1) =>
        /\ head = 1 /\ next[head] = None
        /\ new_head = Len(S)
        /\ ChainOf(new_head, next)[Len(S)] = head
        /\ (LastCall = TravHead => out = <<S[1]>>)

C9_Witness ==
    /\ pc = "main" /\ Revs = <<RevHead>> /\ LastCall = TravHead
    /\ Len(S) = 3 /\ new_head = 3
    /\ out = <<S[1]>>

\* The l characters of s from the 0-based index i on are pairwise different.
NoRepeat(i, l) ==
    \A a, b \in (i + 1)..(i + l) : a # b => s[a] # s[b]

\* The 0-based indices at which a repeat-free window of l characters starts.
Windows(l) == {i \in 0..(Len(s) - l) : NoRepeat(i, l)}

\* C10: longest_unique_substr returns a repeat-free contiguous substring of
\* s of the greatest length there is, the leftmost such one; and after every
\* iteration the window from left to the index just scanned is repeat-free.
C10_LongestUniqueSubstr ==
    /\ (spc = "scan" /\ right >= 1) =>
            /\ left <= right - 1
            /\ NoRepeat(left, right - left)
    /\ spc = "done" =>
            LET l == Len(ret) IN
                /\ Windows(l) # {}
                /\ \A m \in (l + 1)..Len(s) : Windows(m) = {}
                /\ \E i \in Windows(l) :
                        /\ \A k \in Windows(l) : i <= k
                        /\ ret = SubSeq(s, i + 1, i + l)

C10_Witness ==
    /\ spc = "done" /\ s = <<"a", "b", "b", "a">>
    /\ ret = <<"a", "b">>

====
